---- MODULE Spec2Model ----
(***************************************************************************)
(* Model of the refine-style synthesis engine of                           *)
(* src/response /refine_synthesis_tool.py (class RefineSynthesisTool).     *)
(*                                                                         *)
(* A text is a sequence of symbols.  A symbol is either one character of   *)
(* a fragment or query (" ", "a", "A", "b", "B") or one literal piece of   *)
(* the code's string templates, kept whole (for instance "Error:").        *)
(* Token amounts are kept in hundredths of a token, because the code       *)
(* multiplies word counts by 1.33.                                         *)
(***************************************************************************)
EXTENDS Integers, Sequences, FiniteSets, TLC

VARIABLES
    tool,              \* the tool object: "none", "ready", or how __init__
                       \* failed: "raised" (ValueError), "zero_division"
    api_key,           \* self.api_key ("" while there is none)
    config,            \* self.config (RefineConfig)
    pc,                \* position of refine_synthesis: "idle", "calling", "done"
    user_query,        \* argument user_query
    input_chunks,      \* the caller's list object passed as chunks
    prioritize,        \* argument prioritize
    chunks,            \* local chunks (rebound by the prioritization step)
    total_tokens,      \* local total_tokens (hundredths)
    batches,           \* local batches
    i,                 \* number of the batch whose Gateway call is in flight
    prompt,            \* prompt handed to gemini_generate, in flight
    current_response,  \* local current_response
    processing_log,    \* local processing_log
    calls,             \* history: one record per finished gemini_generate call
    issued,            \* history: one record per gemini_generate call begun
    result,            \* <<>> or <<the returned dict>>
    pure,              \* last direct call of a pure method and what it returned
    threads,           \* concurrent callers of refine_synthesis: position,
                       \* arguments, and the Gateway outcomes each received
    frames,            \* local variables of each running refine_synthesis
    held,              \* the list object a caller built and passes to the
                       \* pure methods (built: as the caller built it,
                       \* chunks: its content now)
    history            \* the direct calls of the pure methods, in order

vars == <<tool, api_key, config, pc, user_query, input_chunks, prioritize, chunks,
          total_tokens, batches, i, prompt, current_response,
          processing_log, calls, issued, result, pure, threads, frames,
          held, history>>

toolVars == <<tool, api_key, config>>

twoVars == <<threads, frames>>

repeatVars == <<held, history>>

synthVars == <<pc, user_query, input_chunks, prioritize, chunks,
               total_tokens, batches, i, prompt, current_response,
               processing_log, calls, issued, result>>

----------------------------------------------------------------------------
(* Bounds *)

\* longest fragment list handed to the tool
MaxChunks == 3

\* largest max_tokens_per_request of a configuration
MaxRequestTokens == 143

\* longest text handed to estimate_tokens directly
MaxTextLen == 4

\* most direct calls of the pure methods followed one after another
MaxPureCalls == 3

(* Program constants *)

\* defaults of RefineConfig
DefaultMaxTokensPerRequest == 1000000

DefaultResponseReserveTokens == 4000

DefaultPromptOverheadTokens == 1000

DefaultAverageChunkTokens == 530

\* 1.33 tokens per word, in hundredths
TokensPerWord == 133

\* hundredths per token
Scale == 100

----------------------------------------------------------------------------
(* Input domains *)

\* fragment texts: no word, one word, two words in upper and lower case
\* separated by a run of blanks
ChunkTexts ==
    { <<>>,
      <<"a">>,
      <<"A", " ", " ", "b">> }

\* queries: empty, one word, two words in upper and lower case
Queries ==
    { <<>>,
      <<"a">>,
      <<"B", " ", "a">> }

RECURSIVE SeqsUpTo(_, _)
SeqsUpTo(S, n) ==
    IF n = 0 THEN { <<>> }
    ELSE LET shorter == SeqsUpTo(S, n - 1)
         IN  shorter \cup { Append(s, x) : s \in { t \in shorter : Len(t) = n - 1 }, x \in S }

ChunkLists == SeqsUpTo(ChunkTexts, MaxChunks)

\* texts for estimate_tokens: every mix of blanks, line breaks and letters
EstimateTexts == SeqsUpTo({" ", "\n", "a"}, MaxTextLen)

\* values of average_chunk_tokens; RefineConfig accepts any integer
AverageChunkTokens == {0, 1, 2}

\* configurations with a positive max_content_tokens (batches[0] then
\* always exists).  The overhead of 138 tokens covers the fixed text of
\* either prompt template together with the longest query (103 words,
\* 136.99 tokens); the reserve of 2 tokens covers a one-word completion.
Configs ==
    { [ max_tokens_per_request  |-> m,
        response_reserve_tokens |-> 2,
        prompt_overhead_tokens  |-> 138,
        average_chunk_tokens    |-> a ] :
          m \in 141..MaxRequestTokens, a \in AverageChunkTokens }

\* RefineConfig()
DefaultConfig ==
    [ max_tokens_per_request  |-> DefaultMaxTokensPerRequest,
      response_reserve_tokens |-> DefaultResponseReserveTokens,
      prompt_overhead_tokens  |-> DefaultPromptOverheadTokens,
      average_chunk_tokens    |-> DefaultAverageChunkTokens ]

\* the config argument of __init__: None (<<>>) or a RefineConfig
ConfigArgs == { <<>> } \cup { <<c>> : c \in Configs }

\* credentials given as argument or found in GEMINI_API_KEY: none (""),
\* one the service rejects, one it accepts
ApiKeys == { "", "bad", "good" }

\* texts the generative service can put in response.text (empty included)
GatewayTexts == { <<>>, <<"T1">>, <<"T2">> }

\* messages of the exceptions the service call can raise
GatewayErrors == { "e1" }

----------------------------------------------------------------------------
(* Text helpers: str.lower, str.split, str.join *)

IsSpace(c) == c \in {" ", "\n"}

LowerChar(c) ==
    IF c = "A" THEN "a" ELSE IF c = "B" THEN "b" ELSE c

lower(text) == [k \in 1..Len(text) |-> LowerChar(text[k])]

RECURSIVE SplitFrom(_, _, _, _)
SplitFrom(text, idx, word, acc) ==
    IF idx > Len(text)
    THEN IF word = <<>> THEN acc ELSE Append(acc, word)
    ELSE IF IsSpace(text[idx])
         THEN SplitFrom(text, idx + 1, <<>>,
                        IF word = <<>> THEN acc ELSE Append(acc, word))
         ELSE SplitFrom(text, idx + 1, Append(word, text[idx]), acc)

\* text.split(): the maximal runs of non-blank characters, in order
split(text) == SplitFrom(text, 1, <<>>, <<>>)

ToSet(s) == { s[k] : k \in 1..Len(s) }

ChunkSeparator == "\n\n---CHUNK SEPARATOR---\n\n"

RECURSIVE join(_)
\* "\n\n---CHUNK SEPARATOR---\n\n".join(texts)
join(texts) ==
    IF texts = <<>> THEN <<>>
    ELSE IF Len(texts) = 1 THEN texts[1]
    ELSE texts[1] \o <<ChunkSeparator>> \o join(Tail(texts))

----------------------------------------------------------------------------
(* RefineConfig *)

max_content_tokens(cfg) ==
    cfg.max_tokens_per_request - cfg.response_reserve_tokens
        - cfg.prompt_overhead_tokens

chunks_per_batch(cfg) ==
    max_content_tokens(cfg) \div cfg.average_chunk_tokens

----------------------------------------------------------------------------
(* estimate_tokens, in hundredths of a token *)

\* slip: len(text) instead of len(text.split())
estimate_tokens_chars(text) == Len(text) * TokensPerWord

estimate_tokens(text) == Len(split(text)) * TokensPerWord

RECURSIVE SumTokens(_)
\* sum(self.estimate_tokens(chunk) for chunk in chunks)
SumTokens(cs) ==
    IF cs = <<>> THEN 0 ELSE estimate_tokens(Head(cs)) + SumTokens(Tail(cs))

----------------------------------------------------------------------------
(* prioritize_chunks *)

\* len(query_keywords.intersection(chunk_words))
relevance_score(chunk, query) ==
    LET query_keywords == ToSet(split(lower(query)))
        chunk_words    == ToSet(split(lower(chunk)))
    IN  Cardinality(query_keywords \cap chunk_words)

RECURSIVE sorted_reverse_unstable(_)
\* slip: ties come out in reverse order, as with sorted(...)[::-1]
sorted_reverse_unstable(scored) ==
    IF scored = <<>> THEN <<>>
    ELSE LET n     == Len(scored)
             x     == scored[n]
             rest  == sorted_reverse_unstable(SubSeq(scored, 1, n - 1))
             ahead == Cardinality({ k \in 1..Len(rest) : rest[k][2] > x[2] })
         IN  SubSeq(rest, 1, ahead) \o <<x>> \o SubSeq(rest, ahead + 1, Len(rest))

RECURSIVE sorted_reverse(_)
\* sorted(scored_chunks, key=lambda x: x[1], reverse=True): descending by
\* score; elements of equal score keep their order (the sort is stable
\* also with reverse=True)
sorted_reverse(scored) ==
    IF scored = <<>> THEN <<>>
    ELSE LET n     == Len(scored)
             x     == scored[n]
             rest  == sorted_reverse(SubSeq(scored, 1, n - 1))
             ahead == Cardinality({ k \in 1..Len(rest) : rest[k][2] >= x[2] })
         IN  SubSeq(rest, 1, ahead) \o <<x>> \o SubSeq(rest, ahead + 1, Len(rest))

\* slip: chunks that share no word with the query are left out
prioritize_chunks_filtered(cs, query) ==
    LET kept          == SelectSeq(cs, LAMBDA c : relevance_score(c, query) > 0)
        scored_chunks == [k \in 1..Len(kept) |-> <<kept[k], relevance_score(kept[k], query)>>]
        ordered       == sorted_reverse(scored_chunks)
    IN  [k \in 1..Len(ordered) |-> ordered[k][1]]

prioritize_chunks(cs, query) ==
    LET scored_chunks == [k \in 1..Len(cs) |-> <<cs[k], relevance_score(cs[k], query)>>]
        ordered       == sorted_reverse(scored_chunks)
    IN  [k \in 1..Len(ordered) |-> ordered[k][1]]

----------------------------------------------------------------------------
(* create_batches *)

\* slip: the new batch starts empty, current_batch = []
start_new_batch_empty(chunk, chunk_tokens) ==
    [current_batch |-> <<>>, current_tokens |-> 0]

\* slip: the new batch forgets the cost of its first chunk, current_tokens = 0
start_new_batch_zero(chunk, chunk_tokens) ==
    [current_batch |-> <<chunk>>, current_tokens |-> 0]

\* the branch that starts a new batch: current_batch = [chunk],
\* current_tokens = chunk_tokens
start_new_batch(chunk, chunk_tokens) ==
    [current_batch |-> <<chunk>>, current_tokens |-> chunk_tokens]

\* slip: the wrong field of the config is taken as the budget
over_budget_average(current_tokens, chunk_tokens, cfg) ==
    current_tokens + chunk_tokens > cfg.average_chunk_tokens * Scale

\* slip: only the chunk's own cost is compared with the budget
over_budget_chunk_only(current_tokens, chunk_tokens, cfg) ==
    chunk_tokens > max_content_tokens(cfg) * Scale

\* current_tokens + chunk_tokens > self.config.max_content_tokens
over_budget(current_tokens, chunk_tokens, cfg) ==
    current_tokens + chunk_tokens > max_content_tokens(cfg) * Scale

RECURSIVE create_batches_loop(_, _, _, _, _, _)
create_batches_loop(cs, idx, bs, current_batch, current_tokens, cfg) ==
    IF idx > Len(cs)
    THEN IF current_batch # <<>> THEN Append(bs, current_batch) ELSE bs
    ELSE LET chunk        == cs[idx]
             chunk_tokens == estimate_tokens(chunk)
         IN  IF /\ over_budget(current_tokens, chunk_tokens, cfg)
                /\ current_batch # <<>>
             THEN LET nb == start_new_batch(chunk, chunk_tokens)
                  IN  create_batches_loop(cs, idx + 1, Append(bs, current_batch),
                                          nb.current_batch, nb.current_tokens, cfg)
             ELSE create_batches_loop(cs, idx + 1, bs,
                                      Append(current_batch, chunk),
                                      current_tokens + chunk_tokens, cfg)

create_batches(cs, cfg) == create_batches_loop(cs, 1, <<>>, <<>>, 0, cfg)

----------------------------------------------------------------------------
(* Prompt templates; every literal piece of the f-strings is one symbol *)

InitialHead ==
    "You are a document analysis expert. Analyze the retrieved content and provide a comprehensive response to the user's query.\n\nUSER QUERY: "

InitialContentHead == "\n\nRETRIEVED CONTENT (Batch 1 of "

InitialInstructions ==
    "\n\nINSTRUCTIONS:\n1. Provide a thorough, well-structured response addressing the user's query\n2. Use specific information from the retrieved content with citations where appropriate\n3. Structure your response with clear headings and bullet points if helpful\n4. Include relevant examples, definitions, or explanations\n5. This is batch 1 of "

InitialTail ==
    " - additional content will follow to refine this response\n6. Focus on accuracy and completeness based on the available content\n\nGenerate your comprehensive initial response:"

RefineHead ==
    "You are refining a response with additional retrieved content. Improve and expand the current response using the new information.\n\nUSER QUERY: "

CurrentResponseHead == "\n\nCURRENT RESPONSE:\n"

NewContentHead == "\n\nNEW RETRIEVED CONTENT (Batch "

BatchOf == " of "

ContentHeadEnd == "):\n"

RefineInstructions ==
    "\n\nINSTRUCTIONS:\n1. Refine the current response by incorporating valuable new information\n2. Correct any inconsistencies if new content contradicts previous information\n3. Add important details, examples, or clarifications from the new content\n4. Maintain the overall structure and coherent flow\n5. Remove redundant information but ensure completeness\n6. Integrate new citations or references appropriately\n7. Keep the response focused on the user's query\n\nProvide the refined and improved response:"

\* how str.split sees one symbol: the number of words in it, and whether
\* it begins and ends with white space.  A symbol that is not a template
\* piece is one character or one word without white space.
symbol_shape(sym) ==
    CASE sym \in {" ", "\n"}         -> [words |-> 0,  lead |-> TRUE,  trail |-> TRUE]
      [] sym = InitialHead            -> [words |-> 21, lead |-> FALSE, trail |-> TRUE]
      [] sym = InitialContentHead     -> [words |-> 5,  lead |-> TRUE,  trail |-> TRUE]
      [] sym = InitialInstructions    -> [words |-> 48, lead |-> TRUE,  trail |-> TRUE]
      [] sym = InitialTail            -> [words |-> 25, lead |-> TRUE,  trail |-> FALSE]
      [] sym = RefineHead             -> [words |-> 21, lead |-> FALSE, trail |-> TRUE]
      [] sym = CurrentResponseHead    -> [words |-> 2,  lead |-> TRUE,  trail |-> TRUE]
      [] sym = NewContentHead         -> [words |-> 4,  lead |-> TRUE,  trail |-> TRUE]
      [] sym = BatchOf                -> [words |-> 1,  lead |-> TRUE,  trail |-> TRUE]
      [] sym = ContentHeadEnd         -> [words |-> 1,  lead |-> FALSE, trail |-> TRUE]
      [] sym = RefineInstructions     -> [words |-> 69, lead |-> TRUE,  trail |-> FALSE]
      [] sym = ChunkSeparator         -> [words |-> 2,  lead |-> TRUE,  trail |-> TRUE]
      [] sym = " No response generated from Gemini API"
                                      -> [words |-> 6,  lead |-> TRUE,  trail |-> FALSE]
      [] sym = " Gemini API call failed - "
                                      -> [words |-> 5,  lead |-> TRUE,  trail |-> TRUE]
      [] OTHER                        -> [words |-> 1,  lead |-> FALSE, trail |-> FALSE]

RECURSIVE CountWordsFrom(_, _, _, _)
CountWordsFrom(text, idx, inWord, count) ==
    IF idx > Len(text) THEN count
    ELSE LET sh == symbol_shape(text[idx])
         IN  IF sh.words = 0
             THEN CountWordsFrom(text, idx + 1, FALSE, count)
             ELSE CountWordsFrom(text, idx + 1, ~sh.trail,
                      count + sh.words - (IF inWord /\ ~sh.lead THEN 1 ELSE 0))

\* len(text.split()) for a text that holds template pieces
word_count(text) == CountWordsFrom(text, 1, FALSE, 0)

\* self.estimate_tokens of a whole prompt, in hundredths
prompt_tokens(text) == word_count(text) * TokensPerWord

create_initial_prompt(query, cs, total_batches) ==
    <<InitialHead>> \o query
      \o <<InitialContentHead, ToString(total_batches), ContentHeadEnd>>
      \o join(cs)
      \o <<InitialInstructions, ToString(total_batches), InitialTail>>

\* slip: the prompt of the next step is built ahead of the call in
\* progress, while its answer is still pending
create_refine_prompt_ahead(query, current, new_chunks, batch_num, total_batches) ==
    <<RefineHead>> \o query
      \o <<CurrentResponseHead, "pending">>
      \o <<NewContentHead, ToString(batch_num), BatchOf,
           ToString(total_batches), ContentHeadEnd>>
      \o join(new_chunks)
      \o <<RefineInstructions>>

\* slip: the current response is not interpolated
create_refine_prompt_stale(query, current, new_chunks, batch_num, total_batches) ==
    <<RefineHead>> \o query
      \o <<CurrentResponseHead>>
      \o <<NewContentHead, ToString(batch_num), BatchOf,
           ToString(total_batches), ContentHeadEnd>>
      \o join(new_chunks)
      \o <<RefineInstructions>>

create_refine_prompt(query, current, new_chunks, batch_num, total_batches) ==
    <<RefineHead>> \o query
      \o <<CurrentResponseHead>> \o current
      \o <<NewContentHead, ToString(batch_num), BatchOf,
           ToString(total_batches), ContentHeadEnd>>
      \o join(new_chunks)
      \o <<RefineInstructions>>

----------------------------------------------------------------------------
(* gemini_generate *)

ErrorMark == "Error:"

NoResponseError == <<ErrorMark, " No response generated from Gemini API">>

CallFailedError(e) == <<ErrorMark, " Gemini API call failed - ", e>>

\* slip: an empty response.text is returned as it is
gemini_generate_unchecked(resp) ==
    IF resp.raised THEN CallFailedError(resp.e) ELSE resp.text

\* slip: the except branch returns an empty string
gemini_generate_silent(resp) ==
    IF resp.raised THEN <<>>
    ELSE IF resp.text # <<>> THEN resp.text
    ELSE NoResponseError

\* resp is what self.model.generate_content did: it raised an exception
\* with message resp.e, or it returned a response whose text is resp.text
gemini_generate(resp) ==
    IF resp.raised THEN CallFailedError(resp.e)
    ELSE IF resp.text # <<>> THEN resp.text
    ELSE NoResponseError

----------------------------------------------------------------------------
(* refine_synthesis *)

\* slip: the prioritize argument is not looked at
ordered_chunks_always(cs, query, prio) == prioritize_chunks(cs, query)

\* Step 1: if prioritize: chunks = self.prioritize_chunks(chunks, user_query)
ordered_chunks(cs, query, prio) ==
    IF prio THEN prioritize_chunks(cs, query) ELSE cs

\* Step 2: [chunks] when everything fits one request, else create_batches
select_batches(cs, total, cfg) ==
    IF total <= max_content_tokens(cfg) * Scale
    THEN <<cs>>
    ELSE create_batches(cs, cfg)

\* slip: enumerate(batches, 2), the loop starts over at the first batch
refine_batch_shifted(bs, n) == bs[n - 1]

\* the batch of refine step n: for i, batch in enumerate(batches[1:], 2)
refine_batch(bs, n) == bs[n]

\* slip: the loop runs over batches[1:-1] and leaves the last batch out
more_batches_but_last(bs, n) == n + 1 < Len(bs)

\* for i, batch in enumerate(batches[1:], 2): after step n the loop goes
\* on while a batch is left
more_batches(bs, n) == n < Len(bs)

\* slip: a step whose Gateway call raised is run again
next_step_retry(n, resp) == IF resp.raised THEN n ELSE n + 1

\* the step that follows step n: the loop goes to the next batch whatever
\* gemini_generate returned for this one
next_step(n, resp) == n + 1

\* slip: the two strategy names swapped
processing_strategy_swapped(bs) ==
    IF Len(bs) = 1 THEN "multi_batch" ELSE "single_batch"

processing_strategy(bs) ==
    IF Len(bs) = 1 THEN "single_batch" ELSE "multi_batch"

\* slip: every entry counts the fragments of the first batch
log_entry_first_batch(bs, n) ==
    [ batch_number |-> n,
      chunk_count  |-> Len(bs[1]),
      action       |-> IF n = 1 THEN "initial_synthesis" ELSE "refine_synthesis" ]

\* the entry logged for step n; processing_time (wall-clock seconds) is
\* left out
log_entry(bs, n) ==
    [ batch_number |-> n,
      chunk_count  |-> Len(bs[n]),
      action       |-> IF n = 1 THEN "initial_synthesis" ELSE "refine_synthesis" ]

\* slip: the answer held before the last step is returned
make_result_stale(answer, log) ==
    [ response |-> current_response,
      metadata |->
        [ user_query             |-> user_query,
          total_chunks           |-> Len(chunks),
          total_batches          |-> Len(batches),
          total_tokens_estimated |-> total_tokens,
          processing_strategy    |-> processing_strategy(batches),
          prioritized            |-> prioritize ],
      processing_log |-> log,
      config |->
        [ chunks_per_batch_limit |-> chunks_per_batch(config),
          max_content_tokens     |-> max_content_tokens(config) ] ]

\* slip: total_chunks counts the batches
make_result_counts(answer, log) ==
    [ response |-> answer,
      metadata |->
        [ user_query             |-> user_query,
          total_chunks           |-> Len(batches),
          total_batches          |-> Len(batches),
          total_tokens_estimated |-> total_tokens,
          processing_strategy    |-> processing_strategy(batches),
          prioritized            |-> prioritize ],
      processing_log |-> log,
      config |->
        [ chunks_per_batch_limit |-> chunks_per_batch(config),
          max_content_tokens     |-> max_content_tokens(config) ] ]

\* the dict returned at the end; the two elapsed times are left out
make_result(answer, log) ==
    [ response |-> answer,
      metadata |->
        [ user_query             |-> user_query,
          total_chunks           |-> Len(chunks),
          total_batches          |-> Len(batches),
          total_tokens_estimated |-> total_tokens,
          processing_strategy    |-> processing_strategy(batches),
          prioritized            |-> prioritize ],
      processing_log |-> log,
      config |->
        [ chunks_per_batch_limit |-> chunks_per_batch(config),
          max_content_tokens     |-> max_content_tokens(config) ] ]

\* slip: the key is not checked
key_accepted_unchecked(key) == TRUE

\* if not self.api_key: raise ValueError(...)
key_accepted(key) == key # ""

\* value of every RefineConfig field while no tool object exists
UnsetConfig ==
    [ max_tokens_per_request  |-> 0,
      response_reserve_tokens |-> 0,
      prompt_overhead_tokens  |-> 0,
      average_chunk_tokens    |-> 0 ]

\* the callers that run refine_synthesis at the same time
Invocations == {1, 2}

\* the frame of a refine_synthesis call that has not started
EmptyFrame ==
    [ self_config      |-> UnsetConfig,
      user_query       |-> <<>>,
      prioritize       |-> FALSE,
      chunks           |-> <<>>,
      total_tokens     |-> 0,
      batches          |-> <<>>,
      i                |-> 0,
      prompt           |-> <<>>,
      current_response |-> <<>>,
      processing_log   |-> <<>>,
      result           |-> <<>> ]

Init ==
    /\ held = [built |-> <<>>, chunks |-> <<>>]
    /\ history = <<>>
    /\ threads = [t \in Invocations |-> [pc |-> "idle", args |-> <<>>, got |-> <<>>]]
    /\ frames = [t \in Invocations |-> EmptyFrame]
    /\ tool = "none"
    /\ api_key = ""
    /\ config = UnsetConfig
    /\ pc = "idle"
    /\ user_query = <<>>
    /\ input_chunks = <<>>
    /\ prioritize = TRUE
    /\ chunks = <<>>
    /\ total_tokens = 0
    /\ batches = <<>>
    /\ i = 0
    /\ prompt = <<>>
    /\ current_response = <<>>
    /\ processing_log = <<>>
    /\ calls = <<>>
    /\ issued = <<>>
    /\ result = <<>>
    /\ pure = [op |-> "none"]

\* the three print calls that end __init__, after self.api_key,
\* self.model and self.config are set: the last one evaluates
\* self.config.chunks_per_batch, which raises ZeroDivisionError when
\* average_chunk_tokens is 0; the caller then gets no tool object
init_report(cfg) ==
    IF cfg.average_chunk_tokens = 0 THEN "zero_division" ELSE "ready"

\* RefineSynthesisTool(api_key=arg, config=cfg) with GEMINI_API_KEY = env.
\* genai.configure and genai.GenerativeModel store the key and the model
\* name and do not contact the service.
Construct(arg, env, cfg) ==
    /\ tool = "none"
    /\ LET key == IF arg # "" THEN arg ELSE env
           c   == IF cfg = <<>> THEN DefaultConfig ELSE cfg[1]
       IN  IF key_accepted(key)
           THEN /\ tool' = init_report(c)
                /\ api_key' = key
                /\ config' = c
           ELSE /\ tool' = "raised"
                /\ UNCHANGED <<api_key, config>>
    /\ UNCHANGED <<synthVars, pure, twoVars, repeatVars>>

\* refine_synthesis from its entry up to the first Gateway call: Steps 1
\* and 2 and the construction of the initial prompt.  One invocation per
\* tool object is followed: a later invocation rebinds every local, so it
\* passes through the same states again.
RefineSynthesisStart(query, cs, prio) ==
    /\ tool = "ready"
    /\ pc = "idle"
    /\ LET ordered == ordered_chunks(cs, query, prio)
           total   == SumTokens(ordered)
           bs      == select_batches(ordered, total, config)
       IN  /\ user_query' = query
           /\ input_chunks' = cs
           /\ prioritize' = prio
           /\ chunks' = ordered
           /\ total_tokens' = total
           /\ batches' = bs
           /\ i' = 1
           /\ prompt' = create_initial_prompt(query, bs[1], Len(bs))
    /\ current_response' = <<>>
    /\ processing_log' = <<>>
    /\ calls' = <<>>
    /\ issued' = <<[ batch |-> 1, prompt |-> prompt', completed |-> 0 ]>>
    /\ result' = <<>>
    /\ pc' = "calling"
    /\ UNCHANGED <<toolVars, pure, twoVars, repeatVars>>

\* refine_synthesis from the return of gemini_generate for batch i up to
\* the next Gateway call, or up to the return statement after the last
\* batch
StepReturns(resp) ==
    LET answer == gemini_generate(resp)
        log    == IF i = 1 THEN <<log_entry(batches, 1)>>
                  ELSE Append(processing_log, log_entry(batches, i))
    IN  /\ current_response' = answer
        /\ processing_log' = log
        /\ calls' = Append(calls, [ batch    |-> i,
                                    prompt   |-> prompt,
                                    raised   |-> resp.raised,
                                    text     |-> resp.text,
                                    returned |-> answer ])
        /\ IF more_batches(batches, i)
           THEN /\ i' = next_step(i, resp)
                /\ prompt' = create_refine_prompt(user_query, answer,
                                 refine_batch(batches, i'), i', Len(batches))
                /\ issued' = Append(issued, [ batch     |-> i',
                                              prompt    |-> prompt',
                                              completed |-> Len(calls') ])
                /\ pc' = "calling"
                /\ result' = result
           ELSE /\ i' = i
                /\ prompt' = <<>>
                /\ issued' = issued
                /\ pc' = "done"
                /\ result' = <<make_result(answer, log)>>
        /\ UNCHANGED <<toolVars, user_query, input_chunks, prioritize, chunks,
                       total_tokens, batches, pure, twoVars, repeatVars>>

\* generate_content returns a response; its text may be empty.  The
\* service answers only a key it accepts.
GatewayResponds(text) ==
    /\ pc = "calling"
    /\ api_key = "good"
    /\ StepReturns([raised |-> FALSE, text |-> text, e |-> ""])

\* generate_content (or reading response.text) raises an exception
GatewayRaises(e) ==
    /\ pc = "calling"
    /\ StepReturns([raised |-> TRUE, text |-> <<>>, e |-> e])

Next ==
    \/ \E arg \in ApiKeys, env \in ApiKeys, cfg \in ConfigArgs : Construct(arg, env, cfg)
    \/ \E query \in Queries, cs \in ChunkLists, prio \in BOOLEAN :
           RefineSynthesisStart(query, cs, prio)
    \/ \E text \in GatewayTexts : GatewayResponds(text)
    \/ \E e \in GatewayErrors : GatewayRaises(e)

Spec == Init /\ [][Next]_vars

\* the Gateway call in progress returns or raises
GatewayReturns ==
    \/ \E text \in GatewayTexts : GatewayResponds(text)
    \/ \E e \in GatewayErrors : GatewayRaises(e)

\* every Gateway call eventually returns or raises; refine_synthesis itself
\* runs without waiting between the calls
SpecLive == Spec /\ WF_vars(GatewayReturns)

----------------------------------------------------------------------------
(* Two callers in refine_synthesis at the same time, on the tool object   *)
(* constructed above or on one of their own.  Everything refine_synthesis *)
(* writes is a local variable of the call; self.config and self.model are *)
(* only read.  The steps between two Gateway calls touch nothing but the  *)
(* caller's frame, so they are taken as one step; the callers interleave  *)
(* at the Gateway calls.                                                  *)

\* arguments of the concurrent calls
ThreadInputs ==
    { [ query |-> <<"a">>, chunks |-> << <<"a">>, <<"A", " ", " ", "b">> >>,
        prioritize |-> TRUE ],
      [ query |-> <<"B", " ", "a">>, chunks |-> << <<"A", " ", " ", "b">>, <<"a">> >>,
        prioritize |-> FALSE ],
      [ query |-> <<>>, chunks |-> << <<"a">> >>, prioritize |-> TRUE ] }

\* texts the service returns to the concurrent calls
ThreadTexts == { <<"T1">>, <<"T2">> }

\* the dict returned by the call whose locals are fr
frame_result(fr, answer, log) ==
    [ response |-> answer,
      metadata |->
        [ user_query             |-> fr.user_query,
          total_chunks           |-> Len(fr.chunks),
          total_batches          |-> Len(fr.batches),
          total_tokens_estimated |-> fr.total_tokens,
          processing_strategy    |-> processing_strategy(fr.batches),
          prioritized            |-> fr.prioritize ],
      processing_log |-> log,
      config |->
        [ chunks_per_batch_limit |-> chunks_per_batch(fr.self_config),
          max_content_tokens     |-> max_content_tokens(fr.self_config) ] ]

\* the locals of refine_synthesis(query, cs, prio) on a tool whose config
\* is cfg, when it reaches the first Gateway call
start_frame(cfg, query, cs, prio) ==
    LET ordered == ordered_chunks(cs, query, prio)
        total   == SumTokens(ordered)
        bs      == select_batches(ordered, total, cfg)
    IN  [ self_config      |-> cfg,
          user_query       |-> query,
          prioritize       |-> prio,
          chunks           |-> ordered,
          total_tokens     |-> total,
          batches          |-> bs,
          i                |-> 1,
          prompt           |-> create_initial_prompt(query, bs[1], Len(bs)),
          current_response |-> <<>>,
          processing_log   |-> <<>>,
          result           |-> <<>> ]

\* the locals after gemini_generate returned for batch fr.i, at the next
\* Gateway call or at the return statement
step_frame(fr, resp) ==
    LET answer == gemini_generate(resp)
        log    == IF fr.i = 1 THEN <<log_entry(fr.batches, 1)>>
                  ELSE Append(fr.processing_log, log_entry(fr.batches, fr.i))
    IN  IF more_batches(fr.batches, fr.i)
        THEN [ fr EXCEPT !.current_response = answer,
                         !.processing_log = log,
                         !.i = next_step(fr.i, resp),
                         !.prompt = create_refine_prompt(fr.user_query, answer,
                                        refine_batch(fr.batches, next_step(fr.i, resp)),
                                        next_step(fr.i, resp), Len(fr.batches)) ]
        ELSE [ fr EXCEPT !.current_response = answer,
                         !.processing_log = log,
                         !.prompt = <<>>,
                         !.result = <<frame_result(fr, answer, log)>> ]

\* slip: the locals are kept on the tool object, one copy for every caller
frame_of_shared(t) == 1

\* where the locals of caller t live: each call has its own frame
frame_of(t) == t

\* number of Gateway calls made so far by all callers
CallsMade(ths) == Len(ths[1].got) + Len(ths[2].got)

\* caller t enters refine_synthesis, on the shared tool object or (own) on
\* a tool of its own constructed with RefineConfig()
ThreadStart(t, inp, own) ==
    /\ tool = "ready"
    /\ threads[t].pc = "idle"
    /\ LET cfg == IF own THEN DefaultConfig ELSE config
       IN  /\ frames' = [frames EXCEPT ![frame_of(t)] =
                             start_frame(cfg, inp.query, inp.chunks, inp.prioritize)]
           /\ threads' = [threads EXCEPT ![t] =
                             [ pc   |-> "calling",
                               args |-> <<[ cfg |-> cfg, query |-> inp.query,
                                            chunks |-> inp.chunks,
                                            prioritize |-> inp.prioritize,
                                            own |-> own ]>>,
                               got  |-> <<>> ]]
    /\ UNCHANGED <<toolVars, synthVars, pure, repeatVars>>

\* the Gateway call of caller t returns or raises
ThreadStepReturns(t, resp) ==
    LET fr == step_frame(frames[frame_of(t)], resp)
    IN  /\ frames' = [frames EXCEPT ![frame_of(t)] = fr]
        /\ threads' = [threads EXCEPT
                          ![t].pc = IF fr.result # <<>> THEN "done" ELSE "calling",
                          ![t].got = Append(@, [ resp |-> resp,
                                                 at   |-> CallsMade(threads) + 1 ])]
        /\ UNCHANGED <<toolVars, synthVars, pure, repeatVars>>

ThreadGatewayResponds(t, text) ==
    /\ threads[t].pc = "calling"
    /\ api_key = "good"
    /\ ThreadStepReturns(t, [raised |-> FALSE, text |-> text, e |-> ""])

ThreadGatewayRaises(t, e) ==
    /\ threads[t].pc = "calling"
    /\ ThreadStepReturns(t, [raised |-> TRUE, text |-> <<>>, e |-> e])

NextTwo ==
    \/ \E arg \in ApiKeys, env \in ApiKeys, cfg \in ConfigArgs : Construct(arg, env, cfg)
    \/ \E t \in Invocations, inp \in ThreadInputs, own \in BOOLEAN :
           ThreadStart(t, inp, own)
    \/ \E t \in Invocations, text \in ThreadTexts : ThreadGatewayResponds(t, text)
    \/ \E t \in Invocations, e \in GatewayErrors : ThreadGatewayRaises(t, e)

SpecTwo == Init /\ [][NextTwo]_vars

----------------------------------------------------------------------------
(* Direct calls of the pure methods on a constructed tool.  They read no  *)
(* state but self.config, so one call per behaviour is followed.         *)

CallEstimateTokens(text) ==
    /\ tool = "ready"
    /\ pure.op = "none"
    /\ pure' = [op |-> "estimate_tokens", text |-> text,
                out |-> estimate_tokens(text)]
    /\ UNCHANGED <<toolVars, synthVars, twoVars, repeatVars>>

CallPrioritizeChunks(cs, query) ==
    /\ tool = "ready"
    /\ pure.op = "none"
    /\ pure' = [op |-> "prioritize_chunks", chunks |-> cs, query |-> query,
                out |-> prioritize_chunks(cs, query)]
    /\ UNCHANGED <<toolVars, synthVars, twoVars, repeatVars>>

CallCreateBatches(cs) ==
    /\ tool = "ready"
    /\ pure.op = "none"
    /\ pure' = [op |-> "create_batches", chunks |-> cs,
                out |-> create_batches(cs, config)]
    /\ UNCHANGED <<toolVars, synthVars, twoVars, repeatVars>>

----------------------------------------------------------------------------
(* A caller that builds one list of fragments and calls the pure methods  *)
(* several times, in any order, passing that list object each time.       *)

\* the lists the caller builds
RepeatLists ==
    { << <<"a">>, <<"A", " ", " ", "b">> >>,
      << <<"A", " ", " ", "b">>, <<"a">>, <<"a">> >> }

\* slip: the list is sorted in place (chunks.sort(...)) before it is
\* returned
chunks_after_prioritize_inplace(cs, query) == prioritize_chunks(cs, query)

\* the caller's list after prioritize_chunks(cs, query): the scored pairs
\* go into a new list and sorted() returns another one; cs is only read
chunks_after_prioritize(cs, query) == cs

\* the caller builds its list
RepeatBuild(cs) ==
    /\ tool = "ready"
    /\ held.built = <<>>
    /\ history = <<>>
    /\ held' = [built |-> cs, chunks |-> cs]
    /\ UNCHANGED <<toolVars, synthVars, pure, twoVars, history>>

RepeatEstimateTokens(text) ==
    /\ tool = "ready"
    /\ held.built # <<>>
    /\ Len(history) < MaxPureCalls
    /\ history' = Append(history, [ op    |-> "estimate_tokens",
                                    input |-> <<text>>,
                                    out   |-> <<estimate_tokens(text)>> ])
    /\ UNCHANGED <<toolVars, synthVars, pure, twoVars, held>>

RepeatPrioritizeChunks(query) ==
    /\ tool = "ready"
    /\ held.built # <<>>
    /\ Len(history) < MaxPureCalls
    /\ history' = Append(history, [ op    |-> "prioritize_chunks",
                                    input |-> <<held.built, query>>,
                                    out   |-> prioritize_chunks(held.chunks, query) ])
    /\ held' = [held EXCEPT !.chunks = chunks_after_prioritize(held.chunks, query)]
    /\ UNCHANGED <<toolVars, synthVars, pure, twoVars>>

\* create_batches appends the fragments to lists of its own
RepeatCreateBatches ==
    /\ tool = "ready"
    /\ held.built # <<>>
    /\ Len(history) < MaxPureCalls
    /\ history' = Append(history, [ op    |-> "create_batches",
                                    input |-> <<held.built>>,
                                    out   |-> create_batches(held.chunks, config) ])
    /\ UNCHANGED <<toolVars, synthVars, pure, twoVars, held>>

NextRepeat ==
    \/ \E arg \in ApiKeys, env \in ApiKeys, cfg \in ConfigArgs : Construct(arg, env, cfg)
    \/ \E cs \in RepeatLists : RepeatBuild(cs)
    \/ \E text \in ChunkTexts : RepeatEstimateTokens(text)
    \/ \E query \in Queries : RepeatPrioritizeChunks(query)
    \/ RepeatCreateBatches

SpecRepeat == Init /\ [][NextRepeat]_vars

NextPure ==
    \/ \E arg \in ApiKeys, env \in ApiKeys, cfg \in ConfigArgs : Construct(arg, env, cfg)
    \/ \E text \in ChunkTexts \cup Queries \cup EstimateTexts : CallEstimateTokens(text)
    \/ \E cs \in ChunkLists, query \in Queries : CallPrioritizeChunks(cs, query)
    \/ \E cs \in ChunkLists : CallCreateBatches(cs)

SpecPure == Init /\ [][NextPure]_vars

----------------------------------------------------------------------------
(* Helpers of the properties *)

RECURSIVE Flatten(_)
Flatten(seqs) ==
    IF seqs = <<>> THEN <<>> ELSE Head(seqs) \o Flatten(Tail(seqs))

\* sub occurs in text as a contiguous run of symbols
Contains(text, sub) ==
    \E k \in 0..(Len(text) - Len(sub)) : SubSeq(text, k + 1, k + Len(sub)) = sub

CountSymbol(text, sym) == Cardinality({ k \in 1..Len(text) : text[k] = sym })

Budget == max_content_tokens(config) * Scale

\* the Gateway call did not produce usable text
Failed(call) == call.raised \/ call.text = <<>>

NumBatches == Len(batches)

----------------------------------------------------------------------------
(* Properties of create_batches, checked under SpecPure *)

\* C1: the batches create_batches returns, concatenated in batch order,
\* are exactly the input list: nothing dropped, duplicated or reordered.
BatchPartition ==
    pure.op = "create_batches" => Flatten(pure.out) = pure.chunks

BatchPartitionWitness ==
    /\ pure.op = "create_batches"
    /\ Len(pure.chunks) >= 3
    /\ Len(pure.out) >= 2
    /\ \E k \in 1..Len(pure.out) : Len(pure.out[k]) >= 2

\* C2: every returned batch costs at most max_content_tokens, except a
\* batch that is exactly one fragment whose own cost exceeds it.
BatchBudget ==
    pure.op = "create_batches" =>
        \A k \in 1..Len(pure.out) :
            \/ SumTokens(pure.out[k]) <= Budget
            \/ /\ Len(pure.out[k]) = 1
               /\ estimate_tokens(pure.out[k][1]) > Budget

BatchBudgetWitness ==
    /\ pure.op = "create_batches"
    /\ \E k \in 1..Len(pure.out) :
           /\ Len(pure.out[k]) >= 2
           /\ SumTokens(pure.out[k]) > 0
    /\ \E k \in 1..Len(pure.out) :
           /\ Len(pure.out[k]) = 1
           /\ estimate_tokens(pure.out[k][1]) > Budget

----------------------------------------------------------------------------
(* Properties of refine_synthesis, checked under Spec *)

\* C3 (as claimed): when the Gateway call of one batch k >= 2 fails and
\* the other calls succeed, the answer built before step k is still part of
\* the current answer and of the next refine prompt, together with a
\* failure marker, and the final answer holds both the text derived from
\* batch 1 and a failure marker.
FailureKeepsAnswerSoFar ==
    \A k \in 2..Len(calls) :
        ( /\ Failed(calls[k])
          /\ \A j \in 1..Len(calls) : j # k => ~Failed(calls[j]) )
        =>
        /\ k = Len(calls) =>
               /\ Contains(current_response, calls[k - 1].returned)
               /\ Contains(current_response, <<ErrorMark>>)
        /\ (k = Len(calls) /\ pc = "calling") =>
               Contains(prompt, calls[k - 1].returned)
        /\ pc = "done" =>
               /\ Contains(result[1].response, calls[1].returned)
               /\ Contains(result[1].response, <<ErrorMark>>)

\* C4: a failed Gateway call of any step makes that step's current answer
\* a text that begins with "Error:", and the run goes on: while batches
\* remain the next call is prepared, and the run ends only after one step
\* per batch, with a result.
FailureSubstituted ==
    /\ \A k \in 1..Len(calls) :
           Failed(calls[k]) =>
               /\ calls[k].returned # <<>>
               /\ Head(calls[k].returned) = ErrorMark
    /\ Len(calls) > 0 => current_response = calls[Len(calls)].returned
    /\ pc = "idle" => calls = <<>>
    /\ pc = "calling" => (Len(calls) < NumBatches /\ i = Len(calls) + 1)
    /\ pc = "done" => (Len(calls) = NumBatches /\ Len(result) = 1)
    /\ Len(calls) < NumBatches => pc = "calling"

FailureSubstitutedWitness ==
    /\ pc = "done"
    /\ NumBatches = 3
    /\ calls[1].raised
    /\ ~calls[2].raised /\ calls[2].text = <<>>
    /\ ~Failed(calls[3])

\* C5 (as claimed): whenever some step's Gateway call failed, the final
\* answer contains the marker text substituted for that step.
FailureVisibleInFinalAnswer ==
    pc = "done" =>
        \A k \in 1..Len(calls) :
            Failed(calls[k]) => Contains(result[1].response, calls[k].returned)

\* a log entry that says its step failed: it has a field beyond the three
\* of a successful step, or an action that is not one of the two actions
MarkedFailed(entry) ==
    \/ DOMAIN entry # {"batch_number", "chunk_count", "action"}
    \/ entry.action \notin {"initial_synthesis", "refine_synthesis"}

\* C6 (as claimed): the log entry of every step whose Gateway call failed
\* is marked as failed.
FailedStepMarkedInLog ==
    \A k \in 1..Len(calls) :
        Failed(calls[k]) =>
            /\ k <= Len(processing_log)
            /\ MarkedFailed(processing_log[k])

\* C7 (as claimed): when the Gateway call fails for every batch, the final
\* answer accumulates the error strings of all steps, one marker per batch.
AllFailedAccumulates ==
    ( /\ pc = "done"
      /\ \A k \in 1..Len(calls) : Failed(calls[k]) )
    =>
    /\ CountSymbol(result[1].response, ErrorMark) >= NumBatches
    /\ \A k \in 1..Len(calls) : Contains(result[1].response, calls[k].returned)

\* the part of the prompt of step k that carries batch k
ContentPart(k) ==
    IF k = 1
    THEN <<InitialContentHead, ToString(NumBatches), ContentHeadEnd>>
             \o join(batches[1]) \o <<InitialInstructions>>
    ELSE <<NewContentHead, ToString(k), BatchOf, ToString(NumBatches),
           ContentHeadEnd>>
             \o join(batches[k]) \o <<RefineInstructions>>

\* C8: with N >= 2 batches there are exactly N Gateway calls, call k
\* carries batch k, and the prompt of every call k >= 2 holds, as its
\* current response, exactly the text call k-1 returned (the text of the
\* service when that call succeeded, the substituted error text when not).
MultiBatchProgression ==
    NumBatches >= 2 =>
        /\ Len(calls) <= NumBatches
        /\ pc = "done" => Len(calls) = NumBatches
        /\ \A k \in 1..Len(calls) :
               /\ calls[k].batch = k
               /\ Contains(calls[k].prompt, ContentPart(k))
               /\ ~Failed(calls[k]) => calls[k].returned = calls[k].text
               /\ k >= 2 =>
                      Contains(calls[k].prompt,
                               <<CurrentResponseHead>> \o calls[k - 1].returned
                                   \o <<NewContentHead>>)

MultiBatchProgressionWitness ==
    /\ pc = "done"
    /\ NumBatches = 3
    /\ \A k \in 1..3 : ~Failed(calls[k])
    /\ calls[1].returned # calls[2].returned

\* C9: the prompt of every refine step k >= 2 is made of the query, the
\* answer of step k-1 and the fragments of batch k, and of nothing else:
\* between the fixed pieces of the template it holds no other fragment.
RefineSeesOnlyItsBatch ==
    \A k \in 2..Len(calls) :
        calls[k].prompt =
            <<RefineHead>> \o user_query
              \o <<CurrentResponseHead>> \o calls[k - 1].returned
              \o <<NewContentHead, ToString(k), BatchOf,
                   ToString(NumBatches), ContentHeadEnd>>
              \o join(batches[k])
              \o <<RefineInstructions>>

RefineSeesOnlyItsBatchWitness ==
    /\ pc = "done"
    /\ NumBatches = 3
    /\ batches[1] # batches[2]
    /\ batches[2] # batches[3]
    /\ batches[1] # batches[3]
    /\ user_query # <<>>

\* C10: when the fragments' total estimate is at most max_content_tokens,
\* the whole list is the one batch, there is exactly one Gateway call, and
\* the result reports single_batch, one batch and a log of the one entry
\* initial_synthesis.
SingleBatchShortcut ==
    (pc # "idle" /\ SumTokens(input_chunks) <= Budget) =>
        /\ batches = <<chunks>>
        /\ Len(calls) <= 1
        /\ pc = "done" =>
               /\ Len(calls) = 1
               /\ result[1].metadata.processing_strategy = "single_batch"
               /\ result[1].metadata.total_batches = 1
               /\ Len(result[1].processing_log) = 1
               /\ result[1].processing_log[1].action = "initial_synthesis"

SingleBatchShortcutWitness ==
    /\ pc = "done"
    /\ Len(input_chunks) >= 2
    /\ SumTokens(input_chunks) > 0
    /\ SumTokens(input_chunks) <= Budget
    /\ Len(calls) = 1

\* C11 (as claimed): the reported strategy is single_batch exactly when
\* the total estimate is at most max_content_tokens, and multi_batch
\* whenever it exceeds it, a single over-budget fragment included.
StrategyFollowsTotal ==
    pc = "done" =>
        ( result[1].metadata.processing_strategy = "single_batch"
            <=> SumTokens(chunks) <= Budget )

----------------------------------------------------------------------------
(* Properties of prioritize_chunks and create_batches, under SpecPure *)

\* the number of distinct lowercased query words that are words of the
\* lowercased fragment
OverlapScore(chunk, query) ==
    Cardinality({ w \in ToSet(split(lower(query))) :
                      \E k \in 1..Len(split(lower(chunk))) :
                          split(lower(chunk))[k] = w })

\* C12: prioritize_chunks returns the fragments by descending score, the
\* fragments of equal score in their original order; when every score is
\* 0 the output is the input list.
PrioritizeStableDescending ==
    pure.op = "prioritize_chunks" =>
        LET in  == pure.chunks
            out == pure.out
            q   == pure.query
        IN  /\ Len(out) = Len(in)
            /\ \A k \in 1..(Len(out) - 1) :
                   OverlapScore(out[k], q) >= OverlapScore(out[k + 1], q)
            /\ \A s \in 0..Len(split(q)) :
                   SelectSeq(out, LAMBDA c : OverlapScore(c, q) = s)
                       = SelectSeq(in, LAMBDA c : OverlapScore(c, q) = s)
            /\ (\A k \in 1..Len(in) : OverlapScore(in[k], q) = 0) => out = in

PrioritizeStableDescendingWitness ==
    /\ pure.op = "prioritize_chunks"
    /\ pure.out # pure.chunks
    /\ \E j, k \in 1..Len(pure.chunks) :
           /\ j < k
           /\ pure.chunks[j] # pure.chunks[k]
           /\ OverlapScore(pure.chunks[j], pure.query) = 1
           /\ OverlapScore(pure.chunks[k], pure.query) = 1

\* how often fragment c occurs in the list
Occurrences(cs, c) == Cardinality({ k \in 1..Len(cs) : cs[k] = c })

SameFragments(xs, ys) ==
    /\ Len(xs) = Len(ys)
    /\ \A c \in ToSet(xs) \cup ToSet(ys) : Occurrences(xs, c) = Occurrences(ys, c)

\* C13: the fragments handed on by the core are the caller's fragments,
\* each as often as the caller gave it and with its content unchanged
\* (the prioritized list and the batches are permutations of the caller's
\* list, equal to it without prioritization), and the caller's list is the
\* same after every step of the invocation.
FragmentsNeverMutated ==
    /\ [](pc # "idle" =>
            /\ SameFragments(chunks, input_chunks)
            /\ SameFragments(Flatten(batches), input_chunks)
            /\ ~prioritize => chunks = input_chunks)
    /\ [][pc # "idle" => input_chunks' = input_chunks]_vars

FragmentsNeverMutatedWitness ==
    /\ pc = "done"
    /\ prioritize
    /\ chunks # input_chunks
    /\ Len(input_chunks) = 3
    /\ NumBatches >= 2

\* C14: a fragment whose own cost exceeds max_content_tokens is alone in
\* its batch, wherever it stands in the input, and it is whole.
OversizedFragmentAlone ==
    pure.op = "create_batches" =>
        \A k \in 1..Len(pure.out) :
            \A j \in 1..Len(pure.out[k]) :
                /\ pure.out[k][j] \in ToSet(pure.chunks)
                /\ estimate_tokens(pure.out[k][j]) > Budget
                       => Len(pure.out[k]) = 1

OversizedFragmentAloneWitness ==
    /\ pure.op = "create_batches"
    /\ Len(pure.out) = 3
    /\ estimate_tokens(pure.out[1][1]) <= Budget
    /\ estimate_tokens(pure.out[2][1]) > Budget
    /\ estimate_tokens(pure.out[3][1]) = 0

\* C15 (as claimed): every batch sent to the Gateway is a non-empty
\* sequence of fragments, on the single-batch and on the multi-batch path.
SentBatchesNonEmpty ==
    pc # "idle" => \A k \in 1..NumBatches : batches[k] # <<>>

\* batch k is one fragment whose own cost exceeds max_content_tokens
OversizedBatch(k) ==
    /\ Len(batches[k]) = 1
    /\ estimate_tokens(batches[k][1]) > Budget

\* C16 (as claimed): for every Gateway call, except for a batch made of
\* one over-budget fragment, the estimate of the whole prompt plus
\* response_reserve_tokens is at most max_tokens_per_request.
RequestWithinCeiling ==
    \A k \in 1..Len(calls) :
        ~OversizedBatch(k) =>
            prompt_tokens(calls[k].prompt) + config.response_reserve_tokens * Scale
                <= config.max_tokens_per_request * Scale

\* C17: the final answer is exactly what the last Gateway call of the run
\* returned (the text of the service when that call produced text); with
\* one batch and a service text t, the result is t, one batch and
\* single_batch.
FinalAnswerIsLastReturn ==
    pc = "done" =>
        LET last == calls[Len(calls)]
        IN  /\ Len(calls) = NumBatches
            /\ result[1].response = last.returned
            /\ ~Failed(last) => result[1].response = last.text
            /\ (NumBatches = 1 /\ ~Failed(last)) =>
                   /\ result[1].response = calls[1].text
                   /\ result[1].metadata.total_batches = 1
                   /\ result[1].metadata.processing_strategy = "single_batch"

FinalAnswerIsLastReturnWitness ==
    /\ pc = "done"
    /\ NumBatches = 1
    /\ Len(input_chunks) = 3
    /\ prioritize
    /\ calls[1].text = <<"T1">>
    /\ result[1].response = <<"T1">>

\* C18 (as claimed): no Gateway call is ever made with a missing or an
\* invalid credential; either is caught when the tool is constructed.
NoCallWithoutValidCredential ==
    (pc # "idle" \/ calls # <<>>) => api_key = "good"

\* C18 (amended): a missing credential makes the constructor raise; after
\* that there is no tool, no synthesis starts, no Gateway call is made and
\* the construction is not tried again; every Gateway call is made by a
\* constructed tool that holds a non-empty key.
MissingCredentialStopsConstruction ==
    /\ [](tool = "raised" =>
            /\ api_key = ""
            /\ pc = "idle"
            /\ calls = <<>>
            /\ pure.op = "none")
    /\ []((pc # "idle" \/ calls # <<>>) => (tool = "ready" /\ api_key # ""))
    /\ [][tool = "raised" => tool' = "raised"]_vars
    /\ [][tool' = "raised" => (tool = "none" /\ UNCHANGED <<synthVars, pure, api_key>>)]_vars

MissingCredentialStopsConstructionWitness ==
    /\ tool = "raised"
    /\ api_key = ""

\* the frame of a call made alone with arguments a, after the Gateway
\* outcomes of got
RECURSIVE RunAlone(_, _)
RunAlone(a, got) ==
    IF got = <<>>
    THEN start_frame(a.cfg, a.query, a.chunks, a.prioritize)
    ELSE step_frame(RunAlone(a, SubSeq(got, 1, Len(got) - 1)),
                    got[Len(got)].resp)

\* C19: under every interleaving of two refine_synthesis calls, a step of
\* one call leaves the other call's current answer, batch index and
\* processing log as they were, and each call holds at every point, and
\* returns at the end, what it would alone with the same Gateway outcomes.
InvocationsIndependent ==
    /\ [](\A t \in Invocations :
            /\ threads[t].pc = "idle" => frames[t] = EmptyFrame
            /\ threads[t].pc # "idle" =>
                 frames[t] = RunAlone(threads[t].args[1], threads[t].got)
            /\ threads[t].pc = "done" <=> frames[t].result # <<>>)
    /\ [][\A u \in Invocations :
            threads'[u] = threads[u] => frames'[u] = frames[u]]_vars

\* both calls ran on the same tool object, two batches each, their Gateway
\* calls alternating, one of them with a failed call, and returned
\* different results
InvocationsIndependentWitness ==
    /\ \A t \in Invocations :
         /\ threads[t].pc = "done"
         /\ ~threads[t].args[1].own
         /\ Len(threads[t].got) = 2
    /\ threads[1].got[1].at = 1 /\ threads[2].got[1].at = 2
    /\ threads[1].got[2].at = 3 /\ threads[2].got[2].at = 4
    /\ threads[1].got[1].resp.raised
    /\ ~threads[2].got[1].resp.raised
    /\ frames[1].result # frames[2].result

\* C20: whatever the fragment list and whatever the Gateway calls do, as
\* long as each returns or raises, refine_synthesis returns after the last
\* batch, and the result carries the current answer, the number of
\* fragments, the number of batches, the strategy followed and the whole
\* processing log.
TerminatesWithSnapshot ==
    /\ pc = "calling" ~> pc = "done"
    /\ [](pc = "done" =>
            /\ i = Len(batches)
            /\ Len(calls) = Len(batches)
            /\ Len(result) = 1
            /\ result[1].response = current_response
            /\ result[1].metadata.total_chunks = Len(input_chunks)
            /\ result[1].metadata.total_batches = Len(batches)
            /\ result[1].metadata.processing_strategy =
                 (IF Len(calls) = 1 THEN "single_batch" ELSE "multi_batch")
            /\ result[1].processing_log = processing_log
            /\ Len(processing_log) = Len(batches)
            /\ \A k \in 1..Len(processing_log) :
                 /\ processing_log[k].batch_number = k
                 /\ processing_log[k].chunk_count = Len(batches[k]))
    /\ [](pc # "done" => result = <<>>)

\* a run over three batches whose first call failed and whose last call
\* succeeded has returned
TerminatesWithSnapshotWitness ==
    /\ pc = "done"
    /\ Len(batches) = 3
    /\ Len(input_chunks) = 3
    /\ calls[1].raised
    /\ ~calls[3].raised
    /\ result # <<>>

----------------------------------------------------------------------------
(* Properties of estimate_tokens, checked under SpecPure *)

\* number of places of text where a word begins: a character that is not
\* blank, at the start of the text or right after a blank
WordStarts(text) ==
    Cardinality({ k \in 1..Len(text) :
                    /\ ~IsSpace(text[k])
                    /\ (k = 1 \/ IsSpace(text[k - 1])) })

Prefix(text, n) == SubSeq(text, 1, n)

\* C21: estimate_tokens(text) is 1.33 times the number of words of text
\* that blanks delimit; it is never negative, it is 0 for the empty text,
\* and a prefix of text with fewer words is never estimated higher than
\* text.
EstimateIsWordsTimesRate ==
    pure.op = "estimate_tokens" =>
        /\ pure.out = WordStarts(pure.text) * TokensPerWord
        /\ pure.out >= 0
        /\ (pure.text = <<>> => pure.out = 0)
        /\ \A n \in 0..Len(pure.text) :
             WordStarts(Prefix(pure.text, n)) < WordStarts(pure.text) =>
                 estimate_tokens(Prefix(pure.text, n)) <= pure.out

\* a text that starts with a blank and holds two words, one of its
\* prefixes ending inside the blanks between them
EstimateIsWordsTimesRateWitness ==
    /\ pure.op = "estimate_tokens"
    /\ pure.text = <<" ", "a", "\n", "a">>
    /\ pure.out = 2 * TokensPerWord
    /\ estimate_tokens(Prefix(pure.text, 3)) = TokensPerWord

----------------------------------------------------------------------------
(* Properties of repeated calls of the pure methods, checked under        *)
(* SpecRepeat                                                             *)

\* C22: two calls of the same pure method with the same inputs return the
\* same output, whatever calls were made in between, and no call changes
\* the tool (its key and configuration), the list it was passed or any
\* other state.
PureCallsRepeatable ==
    /\ [](\A j \in 1..Len(history), k \in 1..Len(history) :
            (history[j].op = history[k].op /\ history[j].input = history[k].input)
                => history[j].out = history[k].out)
    /\ [](held.chunks = held.built)
    /\ [][history' # history =>
            /\ UNCHANGED <<toolVars, synthVars, twoVars, held>>
            /\ Len(history') = Len(history) + 1
            /\ SubSeq(history', 1, Len(history)) = history]_vars

\* create_batches, then a prioritize_chunks that reorders the list, then
\* create_batches again on the same list, which gave two batches both
\* times
PureCallsRepeatableWitness ==
    /\ Len(history) = 3
    /\ history[1].op = "create_batches"
    /\ history[2].op = "prioritize_chunks"
    /\ history[2].out # held.built
    /\ history[3].op = "create_batches"
    /\ Len(history[3].out) = 2
    /\ history[3].out = history[1].out

----------------------------------------------------------------------------
(* average_chunk_tokens *)

\* cfg with another value of average_chunk_tokens
WithAverage(cfg, a) == [cfg EXCEPT !.average_chunk_tokens = a]

\* the locals a run of the present invocation holds now when the tool is
\* constructed with average_chunk_tokens = a and the Gateway calls end as
\* they did
RunWithAverage(a) ==
    RunAlone([ cfg |-> WithAverage(config, a), query |-> user_query,
               chunks |-> input_chunks, prioritize |-> prioritize ],
             [k \in 1..Len(calls) |->
                 [ resp |-> [ raised |-> calls[k].raised,
                              text   |-> calls[k].text,
                              e      |-> IF calls[k].raised THEN "e1" ELSE "" ] ]])

\* C23 (as claimed): a run that differs only in the value of
\* average_chunk_tokens constructs the tool with the same outcome, packs
\* the same batches, sends the same prompt at every step, holds the same
\* answer and returns the same result but for the chunks-per-batch hint.
AverageIsInformational ==
    \A a \in AverageChunkTokens :
        /\ tool \in {"ready", "zero_division"} =>
               init_report(WithAverage(config, a)) = tool
        /\ pc # "idle" =>
               LET other == RunWithAverage(a)
               IN  /\ other.batches = batches
                   /\ other.prompt = prompt
                   /\ other.current_response = current_response
                   /\ (pc = "done" =>
                         /\ other.result[1].response = result[1].response
                         /\ other.result[1].metadata = result[1].metadata
                         /\ other.result[1].processing_log = result[1].processing_log)

----------------------------------------------------------------------------
(* The course of one invocation *)

\* the Gateway calls made with a refine prompt
RefineCalls == { k \in 1..Len(calls) : calls[k].prompt[1] = RefineHead }

\* START, STRATEGY_DECIDED (batches chosen, first call not yet back),
\* INITIAL_SYNTHESIZED, REFINING, DONE
Phase ==
    IF pc = "idle" THEN "START"
    ELSE IF pc = "done" THEN "DONE"
    ELSE IF calls = <<>> THEN "STRATEGY_DECIDED"
    ELSE IF Len(calls) = 1 THEN "INITIAL_SYNTHESIZED"
    ELSE "REFINING"

\* C24: an invocation goes START, STRATEGY_DECIDED, INITIAL_SYNTHESIZED,
\* REFINING (once per batch after the first), DONE: the first Gateway call
\* is the initial synthesis of batch 1, every later one is the refine step
\* of the next batch, a finished run over N batches made N - 1 refine
\* steps, and after DONE the invocation makes no call and changes nothing.
LifecycleFollowed ==
    /\ [](Phase \in {"INITIAL_SYNTHESIZED", "REFINING", "DONE"} =>
            /\ calls[1].batch = 1
            /\ calls[1].prompt[1] = InitialHead
            /\ processing_log[1].action = "initial_synthesis"
            /\ RefineCalls = 2..Len(calls)
            /\ \A k \in 1..Len(calls) : calls[k].batch = k)
    /\ [](Phase = "DONE" => Cardinality(RefineCalls) = Len(batches) - 1)
    /\ [](Phase = "REFINING" => Len(calls) < Len(batches))
    /\ [][Phase' # Phase =>
            \/ Phase = "START" /\ Phase' = "STRATEGY_DECIDED"
            \/ Phase = "STRATEGY_DECIDED" /\ Phase' = "INITIAL_SYNTHESIZED"
            \/ Phase = "STRATEGY_DECIDED" /\ Phase' = "DONE" /\ Len(batches) = 1
            \/ Phase = "INITIAL_SYNTHESIZED" /\ Phase' \in {"REFINING", "DONE"}
            \/ Phase = "REFINING" /\ Phase' = "DONE"]_vars
    /\ [][Phase = "REFINING" /\ calls' # calls =>
            Len(calls') = Len(calls) + 1]_vars
    /\ [][Phase = "DONE" => UNCHANGED synthVars]_vars

\* a run over three batches is done after the initial synthesis and two
\* refine steps
LifecycleFollowedWitness ==
    /\ Phase = "DONE"
    /\ Len(batches) = 3
    /\ calls[1].prompt[1] = InitialHead
    /\ RefineCalls = {2, 3}

----------------------------------------------------------------------------
(* Order of the Gateway calls of one invocation *)

\* Gateway calls begun and not yet back
InFlight == Len(issued) - Len(calls)

\* C25: the Gateway calls of one invocation go one after the other: call
\* k+1 is begun only when calls 1..k are back, its prompt is built from
\* what call k returned (the text or the substituted error string), and at
\* no time is more than one call in flight.
PipelineSequential ==
    /\ InFlight \in {0, 1}
    /\ InFlight = 1 <=> pc = "calling"
    /\ pc = "calling" =>
         /\ i = Len(issued)
         /\ prompt = issued[i].prompt
    /\ \A k \in 1..Len(issued) :
         /\ issued[k].batch = k
         /\ issued[k].completed = k - 1
         /\ k >= 2 =>
              Contains(issued[k].prompt,
                       <<CurrentResponseHead>> \o calls[k - 1].returned
                           \o <<NewContentHead>>)
    /\ \A k \in 1..Len(calls) : calls[k].prompt = issued[k].prompt

\* the third call is in flight; the first came back with text, the second
\* with the substituted error string
PipelineSequentialWitness ==
    /\ pc = "calling"
    /\ Len(issued) = 3
    /\ Len(calls) = 2
    /\ ~Failed(calls[1])
    /\ Failed(calls[2])

----------------------------------------------------------------------------
(* Number of Gateway calls *)

\* the Gateway calls begun for batch b
CallsForBatch(b) == { k \in 1..Len(issued) : issued[k].batch = b }

\* C26: no batch is tried twice: every batch gets one Gateway call whether
\* the call succeeds or fails, the call after a failed one is for the next
\* batch, and a finished run has made as many calls as it has batches.
OneCallPerBatch ==
    /\ Len(issued) <= Len(batches)
    /\ \A b \in 1..Len(batches) :
         /\ Cardinality(CallsForBatch(b)) <= 1
         /\ (b <= Len(calls) \/ pc = "done") => Cardinality(CallsForBatch(b)) = 1
    /\ \A k \in 1..Len(calls) :
         (Failed(calls[k]) /\ k < Len(issued)) =>
             /\ issued[k + 1].batch = calls[k].batch + 1
             /\ Contains(issued[k + 1].prompt, join(batches[calls[k].batch + 1]))
    /\ pc = "done" =>
         /\ Len(calls) = Len(batches)
         /\ Len(issued) = Len(batches)
         /\ result[1].metadata.total_batches = Len(calls)

\* a finished run over three batches whose first call raised and whose
\* second call came back empty made three calls
OneCallPerBatchWitness ==
    /\ pc = "done"
    /\ Len(batches) = 3
    /\ calls[1].raised
    /\ ~calls[2].raised /\ calls[2].text = <<>>
    /\ Len(calls) = 3

----------------------------------------------------------------------------
(* The processing log *)

\* C27: the processing log only grows, by one entry per finished step:
\* after step k it has k entries, the entries it had stay as they were,
\* entry k has batch_number k and the size of batch k as chunk_count, the
\* first entry is an initial_synthesis and every later one a
\* refine_synthesis, and at the end there is one entry per batch.
LogMirrorsBatches ==
    /\ [](/\ Len(processing_log) = Len(calls)
          /\ \A k \in 1..Len(processing_log) :
               /\ processing_log[k].batch_number = k
               /\ processing_log[k].batch_number = calls[k].batch
               /\ processing_log[k].chunk_count = Len(batches[k])
               /\ processing_log[k].action =
                    (IF k = 1 THEN "initial_synthesis" ELSE "refine_synthesis")
          /\ (pc = "done" =>
                /\ Len(processing_log) = Len(batches)
                /\ result[1].processing_log = processing_log))
    /\ [][/\ Len(processing_log') \in {Len(processing_log), Len(processing_log) + 1}
          /\ SubSeq(processing_log', 1, Len(processing_log)) = processing_log
          /\ (Len(processing_log') = Len(processing_log) + 1 <=>
                Len(calls') = Len(calls) + 1)]_vars

\* a finished run whose first batch holds two fragments and whose second
\* batch holds one
LogMirrorsBatchesWitness ==
    /\ pc = "done"
    /\ Len(processing_log) = 2
    /\ processing_log[1].chunk_count = 2
    /\ processing_log[2].chunk_count = 1

----------------------------------------------------------------------------
(* The fragments in the prompts *)

\* the text a prompt holds between the head of its content section and
\* its instructions
PromptContent(p) ==
    LET first == CHOOSE k \in 1..Len(p) : p[k] = ContentHeadEnd
        last  == CHOOSE k \in 1..Len(p) :
                     p[k] \in {InitialInstructions, RefineInstructions}
    IN  SubSeq(p, first + 1, last - 1)

RECURSIVE SplitAtSeparator(_, _, _, _)
SplitAtSeparator(text, idx, piece, acc) ==
    IF idx > Len(text) THEN Append(acc, piece)
    ELSE IF text[idx] = ChunkSeparator
         THEN SplitAtSeparator(text, idx + 1, <<>>, Append(acc, piece))
         ELSE SplitAtSeparator(text, idx + 1, Append(piece, text[idx]), acc)

\* the fragments a prompt holds, in order
PromptFragments(p) == SplitAtSeparator(PromptContent(p), 1, <<>>, <<>>)

\* the fragments of the prompts of calls 1..n, in the order sent
RECURSIVE SentFragments(_)
SentFragments(n) ==
    IF n = 0 THEN <<>>
    ELSE SentFragments(n - 1) \o PromptFragments(calls[n].prompt)

\* C28: the prompts of a finished run hold, call after call, the planned
\* list of fragments, each fragment once and in its place: the list
\* prioritize_chunks gives when prioritize is set, the caller's list as it
\* came when not.
FragmentsSentInPlannedOrder ==
    pc = "done" =>
        LET planned == IF prioritize
                       THEN prioritize_chunks(input_chunks, user_query)
                       ELSE input_chunks
        IN  /\ \A k \in 1..Len(calls) :
                 PromptContent(calls[k].prompt) = join(batches[k])
            /\ Flatten(batches) = planned
            /\ planned # <<>> => SentFragments(Len(calls)) = planned
            /\ planned = <<>> =>
                 /\ Len(calls) = 1
                 /\ PromptContent(calls[1].prompt) = <<>>

\* a finished run without prioritization over two batches, on a list that
\* prioritize_chunks would have reordered
FragmentsSentInPlannedOrderWitness ==
    /\ pc = "done"
    /\ ~prioritize
    /\ Len(batches) = 2
    /\ prioritize_chunks(input_chunks, user_query) # input_chunks
    /\ SentFragments(Len(calls)) = input_chunks

----------------------------------------------------------------------------
(* Greedy packing, checked under SpecPure *)

\* C29: create_batches closes a batch only when the next fragment does not
\* fit: the estimates of a batch plus the estimate of the first fragment
\* of the batch after it exceed max_content_tokens; so two or more
\* fragments whose total exceeds max_content_tokens never come back as one
\* batch.
BatchesGreedyMaximal ==
    pure.op = "create_batches" =>
        /\ \A k \in 1..(Len(pure.out) - 1) :
             /\ pure.out[k + 1] # <<>>
             /\ SumTokens(pure.out[k]) + estimate_tokens(pure.out[k + 1][1]) > Budget
        /\ (Len(pure.chunks) >= 2 /\ SumTokens(pure.chunks) > Budget) =>
               Len(pure.out) >= 2

\* two fragments fill the first batch below the budget and the third one
\* opens the second batch
BatchesGreedyMaximalWitness ==
    /\ pure.op = "create_batches"
    /\ Len(pure.out) = 2
    /\ Len(pure.out[1]) = 2
    /\ SumTokens(pure.out[1]) > 0
    /\ SumTokens(pure.out[1]) < Budget
    /\ SumTokens(pure.chunks) > Budget

----------------------------------------------------------------------------
(* The current answer is never empty *)

\* C30: after every step the current answer is a text that is not empty:
\* gemini_generate returns the text of the service when there is one and
\* a text that begins with "Error:" when the service returned none or
\* raised; so no refine prompt carries an empty current response and the
\* final answer is not empty.
AnswerNeverEmpty ==
    /\ \A k \in 1..Len(calls) :
         /\ calls[k].returned # <<>>
         /\ (calls[k].raised \/ calls[k].text = <<>>) =>
                Head(calls[k].returned) = ErrorMark
    /\ Len(calls) >= 1 => current_response # <<>>
    /\ \A k \in 2..Len(issued) :
         ~Contains(issued[k].prompt, <<CurrentResponseHead, NewContentHead>>)
    /\ pc = "done" => result[1].response # <<>>

\* a finished run whose three calls brought no text: an empty response,
\* an exception, an empty response
AnswerNeverEmptyWitness ==
    /\ pc = "done"
    /\ Len(calls) = 3
    /\ ~calls[1].raised /\ calls[1].text = <<>>
    /\ calls[2].raised
    /\ ~calls[3].raised /\ calls[3].text = <<>>
    /\ result[1].response = NoResponseError

====
